---- MODULE Spec2Model ----
(***************************************************************************)
(* URP: a reliable transport over UDP (src/assignment).                    *)
(*                                                                         *)
(* The sender (sender.py) runs three threads over one shared UrpSender     *)
(* object: the main thread (Run / SendData), the receive thread            *)
(* (ReceiveLoop / HandleAck) and timer threads (_TimerThread).  The        *)
(* receiver (receiver.py) is a single loop.  The two sides exchange        *)
(* encoded segments over two UDP sockets on localhost, modelled as the     *)
(* FIFO queues fwd (sender -> receiver) and rev (receiver -> sender).      *)
(* Loss and corruption come only from the sender-side PLC.                 *)
(*                                                                         *)
(* Specifications:                                                         *)
(*   Spec       one transfer, closed network                               *)
(*   SpecDeep   the same with more timer expiries                          *)
(*   SpecLate   the same with late retransmissions of the SYN              *)
(*   SpecOpen   stray ACKs arrive at the sender's socket                   *)
(*   SpecStray  stray segments arrive at the receiver's socket             *)
(*   SpecCodec  the segment codec and the corruption primitive alone       *)
(*   SpecPlc    one PLC decision per direction, for drawn probabilities    *)
(*   FairSpec   Spec under fair scheduling of the threads                  *)
(***************************************************************************)
EXTENDS Integers, Sequences, FiniteSets, TLC

(***************************************************************************)
(* Bounds of the model.                                                    *)
(***************************************************************************)
\* payload bytes per DATA segment (the code's 1000, scaled down)
MSS == 1
\* longest input file, in bytes
MaxFile == 2
\* largest max_win, in multiples of MSS
MaxWinSegs == 2
\* datagrams a socket buffer holds
MaxQueue == 2
\* PLC drops and corruptions per run, both directions together
MaxFaults == 1
\* timer expiries that retransmit, per run
MaxTimeouts == 1
\* timer threads alive at once
MaxTimers == 2
\* stray datagrams the network may deliver to a socket
MaxStrays == 1
\* highest byte index / bit index the PLC's corruption picks during a run
MaxCorruptByte == 4
MaxCorruptBit == 0
\* longest payload the codec is exercised with on its own
MaxPayload == 3

(***************************************************************************)
(* Program constants.                                                      *)
(***************************************************************************)
SEGMENT_DATA == 0
SEGMENT_ACK == 1
SEGMENT_SYN == 2
SEGMENT_FIN == 3
FLAG_ACK == 8192
FLAG_SYN == 16384
FLAG_FIN == 32768
HEADER_SIZE == 6
\* sender states
S_CLOSED == 0
S_SYN_SENT == 1
S_ESTABLISHED == 2
S_FIN_SENT == 3
\* receiver states
STATE_CLOSED == 0
STATE_ESTABLISHED == 1
STATE_TIME_WAIT == 2
\* struct.pack('>H', v) accepts 0..MaxSeq only
MaxSeq == 65535
\* Python's None for an integer-valued attribute
None == -1

Min(S) == CHOOSE x \in S : \A y \in S : x <= y
MinOf(a, b) == IF a <= b THEN a ELSE b

(***************************************************************************)
(* Segment codec.                                                          *)
(***************************************************************************)
\* while checksum >> 16: checksum = (checksum & 0xFFFF) + (checksum >> 16)
FoldCarry(checksum) ==
    LET fold[c \in Nat] == IF c \div 65536 # 0
                           THEN fold[(c % 65536) + (c \div 65536)]
                           ELSE c
    IN fold[checksum]

\* the word at 1-based position i (a last odd byte is the high byte)
Word(data, i) ==
    IF i + 1 <= Len(data) THEN data[i] * 256 + data[i + 1] ELSE data[i] * 256

\* the loop of CalculateChecksum over the words from position i on
SumWords(data, i, checksum) ==
    LET sum[k \in Nat, c \in Nat] ==
            IF k > Len(data) THEN c
            ELSE sum[k + 2, FoldCarry(c + Word(data, k))]
    IN sum[i, checksum]

CalculateChecksum(data) ==
    CHOOSE r \in {65535 - SumWords(d, 1, 0) : d \in {data}} : TRUE

\* struct.pack('>H', v); raises struct.error unless CanPack(v)
CanPack(v) == v \in 0..MaxSeq
PackH(v) == <<v \div 256, v % 256>>

\* faulty variant: reads the two bytes low byte first
UnpackHLittle(b, i) == b[i] + b[i + 1] * 256

\* struct.unpack('>H', b[i:i+2])[0], i 1-based
UnpackH(b, i) == b[i] * 256 + b[i + 1]

SegmentFlags(segment_type) ==
    IF segment_type = SEGMENT_ACK THEN FLAG_ACK
    ELSE IF segment_type = SEGMENT_SYN THEN FLAG_SYN
    ELSE IF segment_type = SEGMENT_FIN THEN FLAG_FIN
    ELSE 0

CreateSegment(seq_num, segment_type, payload) ==
    LET seq_bytes == PackH(seq_num)
        flags_bytes == PackH(SegmentFlags(segment_type))
        temp_segment == seq_bytes \o flags_bytes \o <<0, 0>> \o payload
        checksum_bytes == PackH(CalculateChecksum(temp_segment))
    IN seq_bytes \o flags_bytes \o checksum_bytes \o payload

Bit(x, k) == (x \div (2 ^ k)) % 2

FlagsType(flags_field) ==
    IF Bit(flags_field, 13) = 1 THEN SEGMENT_ACK
    ELSE IF Bit(flags_field, 14) = 1 THEN SEGMENT_SYN
    ELSE IF Bit(flags_field, 15) = 1 THEN SEGMENT_FIN
    ELSE SEGMENT_DATA

\* None (length < 6) is the record with seq_num = None
ParseSegment(segment_data) ==
    IF Len(segment_data) < HEADER_SIZE
    THEN [seq_num |-> None, segment_type |-> None, payload |-> <<>>, is_valid |-> FALSE]
    ELSE LET payload == SubSeq(segment_data, 7, Len(segment_data))
             temp_segment == SubSeq(segment_data, 1, 4) \o <<0, 0>> \o payload
         IN [seq_num |-> UnpackH(segment_data, 1),
             segment_type |-> FlagsType(UnpackH(segment_data, 3)),
             payload |-> payload,
             is_valid |-> (CalculateChecksum(temp_segment) = UnpackH(segment_data, 5))]

\* byte_idx is 0-based as in the code; bit_idx in 0..7
CorruptSegment(segment_data, byte_idx, bit_idx) ==
    [segment_data EXCEPT ![byte_idx + 1] =
        IF Bit(@, bit_idx) = 1 THEN @ - 2 ^ bit_idx ELSE @ + 2 ^ bit_idx]

\* faulty variant: any byte of the segment, the first four included
CorruptAnyByte(segment_data) ==
    (0..(Len(segment_data) - 1)) \X (0..7)

\* every (byte_idx, bit_idx) pair the two random.randint calls can return
CorruptDraws(segment_data) ==
    ((IF Len(segment_data) <= 4 THEN 0 ELSE 4)..(Len(segment_data) - 1)) \X (0..7)

\* the (byte_idx, bit_idx) pairs random.randint can return, within the bounds
CorruptChoices(segment_data) ==
    LET lo == IF Len(segment_data) <= 4 THEN 0 ELSE 4
        hi == MinOf(Len(segment_data) - 1, MaxCorruptByte)
    IN (lo..hi) \X (0..MinOf(7, MaxCorruptBit))

(***************************************************************************)
(* PLC.  Probabilities and the random sample are in quarters.              *)
(***************************************************************************)
RandSamples == 0..3
flp == 1
fcp == 1
rlp == 1
rcp == 1

PlcStatus(rand, loss_prob, corrupt_prob) ==
    IF rand < loss_prob THEN "drp"
    ELSE IF rand < loss_prob + corrupt_prob THEN "cor"
    ELSE "ok"

\* Plc.__init__: the PLC object
Plc(p_flp, p_rlp, p_fcp, p_rcp) ==
    [flp |-> p_flp, rlp |-> p_rlp, fcp |-> p_fcp, rcp |-> p_rcp]

\* (processed segment, status); <<>> stands for None
ProcessForward(plc, segment_data, rand, c) ==
    LET status == PlcStatus(rand, plc.flp, plc.fcp)
    IN [seg |-> IF status = "drp" THEN <<>>
                ELSE IF status = "cor" THEN CorruptSegment(segment_data, c[1], c[2])
                ELSE segment_data,
        status |-> status]

\* faulty variant: the reverse path decides with the forward probabilities
ProcessReverseAsForward(plc, segment_data, rand, c) ==
    ProcessForward(plc, segment_data, rand, c)

ProcessReverse(plc, segment_data, rand, c) ==
    LET status == PlcStatus(rand, plc.rlp, plc.rcp)
    IN [seg |-> IF status = "drp" THEN <<>>
                ELSE IF status = "cor" THEN CorruptSegment(segment_data, c[1], c[2])
                ELSE segment_data,
        status |-> status]


(***************************************************************************)
(* State.                                                                  *)
(*   cfg   the run's limits: the ISNs random.randint may return, how many  *)
(*         PLC faults and retransmitting timer expiries may happen, and    *)
(*         how many stray datagrams may still arrive                       *)
(*   file  the sender's input file (bytes)                                 *)
(*   snd   the UrpSender object's attributes                               *)
(*   main  the sender's main thread: position in Run / SendData and locals *)
(*   recv  the sender's receive thread: position in ReceiveLoop / HandleAck*)
(*   tmr   the timer threads: how many are alive, and the locals of the    *)
(*         one that holds timer_lock in the middle of a retransmission     *)
(*   rcv   the URPReceiver object's attributes, run()'s locals and position*)
(*   out   the bytes written to the receiver's output file                 *)
(*   fwd   datagrams queued at the receiver's socket                       *)
(*   rev   datagrams queued at the sender's socket                         *)
(***************************************************************************)
VARIABLES cfg, file, snd, main, recv, tmr, rcv, out, fwd, rev

vars == <<cfg, file, snd, main, recv, tmr, rcv, out, fwd, rev>>

EmptyMap == [k \in {} |-> 0]
Put(m, k, v) == [x \in DOMAIN m \cup {k} |-> IF x = k THEN v ELSE m[x]]
Remove(m, ks) == [x \in DOMAIN m \ ks |-> m[x]]

\* the input file of n bytes
File(n) == [i \in 1..n |-> 17 * i]

\* initial sequence numbers random.randint(0, 65535) is taken from here:
\* the largest one for which every sequence number fits 16 bits, and two above
IsnChoices == (MaxSeq - 2 - MaxFile)..MaxSeq

SenderStats0 ==
    [original_data_sent |-> 0,
     total_data_sent |-> 0,
     original_segments_sent |-> 0,
     total_segments_sent |-> 0,
     timeout_retransmissions |-> 0,
     fast_retransmissions |-> 0,
     duplicate_acks_received |-> 0,
     corrupted_acks_discarded |-> 0,
     plc_forward_segments_dropped |-> 0,
     plc_forward_segments_corrupted |-> 0,
     plc_reverse_segments_dropped |-> 0,
     plc_reverse_segments_corrupted |-> 0]

ReceiverStats0 ==
    [corrupted_segments_discarded |-> 0,
     duplicate_segments_received |-> 0]

UrpSenderInit(max_win) ==
    [state |-> S_CLOSED, isn |-> None, next_seq |-> None, base |-> None,
     window |-> EmptyMap, unacked_bytes |-> 0,
     file_open |-> FALSE, sock_open |-> TRUE,
     file_size |-> 0, file_pos |-> 0, max_win |-> max_win,
     timer_running |-> FALSE, oldest_unacked_seq |-> None,
     dup_ack_count |-> EmptyMap, stats |-> SenderStats0,
     plc |-> Plc(flp, rlp, fcp, rcp)]

URPReceiverInit ==
    [pc |-> "start", file_open |-> FALSE, sock_open |-> TRUE,
     state |-> STATE_CLOSED, expected_seq |-> None, isn |-> None,
     buffer |-> EmptyMap, received_bytes |-> {},
     fin_received |-> FALSE, fin_ack_num |-> None,
     stats |-> ReceiverStats0]

\* the threads' locals when no call is in progress
MainIdle(pc) == [pc |-> pc, seq_num |-> None, payload |-> <<>>, loaded |-> 0]
RecvIdle(pc) ==
    [pc |-> pc, ack_num |-> None, acked_seqs |-> {}, loaded |-> 0, op |-> "none",
     status |-> "none"]
TimersNone == [alive |-> 0, mid |-> FALSE, seg_data |-> <<>>, payload_len |-> 0]

\* the state after both constructors, for input files of the lengths in sizes
\* and max_win of the segment counts in wins
Start(sizes, wins, limits) ==
    /\ cfg = limits
    /\ \E n \in sizes : file = File(n)
    /\ \E w \in wins : snd = UrpSenderInit(w * MSS)
    /\ main = MainIdle("start")
    /\ recv = RecvIdle("idle")
    /\ tmr = TimersNone
    /\ rcv = URPReceiverInit
    /\ out = <<>>
    /\ fwd = <<>>
    /\ rev = <<>>

Init ==
    Start(0..MaxFile, 1..MaxWinSegs,
          [isns |-> IsnChoices, timeouts |-> MaxTimeouts, faults |-> MaxFaults,
           strays |-> 0])

(***************************************************************************)
(* Sender helpers.                                                         *)
(***************************************************************************)
\* PLC drops and corruptions so far (the bound MaxFaults caps them)
Faults(stats) ==
    stats.plc_forward_segments_dropped + stats.plc_forward_segments_corrupted
    + stats.plc_reverse_segments_dropped + stats.corrupted_acks_discarded

\* the sender process runs until its main thread returns or dies
SenderRunning == main.pc \notin {"start", "done", "returned", "crashed"}

\* timer_lock is held across steps only by a timer thread
LockFree == ~tmr.mid

\* the receiver's socket is closed once run() has returned: datagrams sent to it
\* are lost; the sender's socket likewise once the sender process has ended, and
\* nothing reads it once the receive thread has ended
ReceiverGone == rcv.pc = "done"
SenderGone == main.pc \in {"done", "returned", "crashed"} \/ recv.pc = "exited"
FwdRoom == ReceiverGone \/ Len(fwd) < MaxQueue
RevRoom == SenderGone \/ Len(rev) < MaxQueue

\* SendSegment: the statistics and the receiver's socket queue afterwards,
\* for the PLC's sample rand and corruption choice c
SendSegment(stats, q, seq_num, segment_type, payload, is_retransmission, rand, c) ==
    LET seg == CreateSegment(seq_num, segment_type, payload)
        r == ProcessForward(snd.plc, seg, rand, c)
    IN IF r.status = "drp"
       THEN [stats |-> [stats EXCEPT !.plc_forward_segments_dropped = @ + 1],
             fwd |-> q]
       ELSE LET original == segment_type = SEGMENT_DATA /\ ~is_retransmission
                counted ==
                    [stats EXCEPT
                       !.original_data_sent = IF original THEN @ + Len(payload) ELSE @,
                       !.original_segments_sent = IF original THEN @ + 1 ELSE @,
                       !.total_data_sent = IF segment_type = SEGMENT_DATA
                                           THEN @ + Len(payload) ELSE @,
                       !.total_segments_sent = @ + 1]
            IN [stats |-> IF r.status = "cor"
                          THEN [counted EXCEPT !.plc_forward_segments_corrupted = @ + 1]
                          ELSE counted,
                fwd |-> IF ReceiverGone THEN q ELSE Append(q, r.seg)]

\* the PLC samples a forward send may draw, within the bounds
ForwardDraws(seg) ==
    {d \in RandSamples \X CorruptChoices(seg) :
        PlcStatus(d[1], snd.plc.flp, snd.plc.fcp) = "ok" \/ Faults(snd.stats) < cfg.faults}

ReverseDraws(seg) ==
    {d \in RandSamples \X CorruptChoices(seg) :
        PlcStatus(d[1], snd.plc.rlp, snd.plc.rcp) = "ok" \/ Faults(snd.stats) < cfg.faults}

\* StartTimer: the sender object afterwards (spawned says whether a thread starts)
StartTimerSpawns(s) == ~s.timer_running
StartTimer(s, seq_num) ==
    IF ~s.timer_running
    THEN [s EXCEPT !.oldest_unacked_seq = seq_num, !.timer_running = TRUE]
    ELSE s

StopTimer(s) == [s EXCEPT !.timer_running = FALSE]

(***************************************************************************)
(* Sender main thread: Run and SendData.                                   *)
(***************************************************************************)
\* the main thread returns from Run or dies: the process ends, and with it the
\* daemon threads and the socket
ProcessExit(pc) ==
    /\ main' = MainIdle(pc)
    /\ recv' = RecvIdle("exited")
    /\ tmr' = TimersNone
    /\ rev' = <<>>

\* Run: open the file, measure it, start the receive thread
RunStart ==
    /\ main.pc = "start"
    /\ snd' = [snd EXCEPT !.file_open = TRUE, !.file_size = Len(file)]
    /\ recv' = [recv EXCEPT !.pc = "loop"]
    /\ main' = [main EXCEPT !.pc = "syn"]
    /\ UNCHANGED <<cfg, file, tmr, rcv, out, fwd, rev>>

\* Run: enter SYN_SENT, pick the ISN, send the SYN
RunSyn ==
    /\ main.pc = "syn"
    /\ FwdRoom
    /\ \E isn \in cfg.isns :
         \E d \in ForwardDraws(CreateSegment(isn, SEGMENT_SYN, <<>>)) :
            LET r == SendSegment(snd.stats, fwd, isn, SEGMENT_SYN, <<>>, FALSE, d[1], d[2])
            IN /\ snd' = [snd EXCEPT !.state = S_SYN_SENT, !.isn = isn,
                                     !.base = isn, !.next_seq = isn,
                                     !.stats = r.stats]
               /\ fwd' = r.fwd
    /\ main' = [main EXCEPT !.pc = "syn_win"]
    /\ UNCHANGED <<cfg, file, recv, tmr, rcv, out, rev>>

\* Run: put the SYN in the window, advance next_seq, start the timer
RunSynWindow ==
    /\ main.pc = "syn_win"
    /\ LockFree
    /\ StartTimerSpawns(snd) => tmr.alive < MaxTimers
    /\ LET s1 == [snd EXCEPT
                    !.window = Put(@, snd.isn,
                                   [seg_data |-> CreateSegment(snd.isn, SEGMENT_SYN, <<>>),
                                    payload_len |-> 0]),
                    !.next_seq = snd.isn + 1]
       IN snd' = StartTimer(s1, snd.isn)
    /\ tmr' = IF StartTimerSpawns(snd) THEN [tmr EXCEPT !.alive = @ + 1] ELSE tmr
    /\ main' = [main EXCEPT !.pc = "wait_est"]
    /\ UNCHANGED <<cfg, file, recv, rcv, out, fwd, rev>>

\* Run: the wait loop sees the state leave SYN_SENT
RunEstablished ==
    /\ main.pc = "wait_est"
    /\ snd.state # S_SYN_SENT
    /\ IF snd.state = S_ESTABLISHED
       THEN /\ main' = [main EXCEPT !.pc = "send"]
            /\ UNCHANGED <<recv, tmr, rev>>
       ELSE ProcessExit("returned")
    /\ UNCHANGED <<cfg, file, snd, rcv, out, fwd>>

\* Run: 30 seconds pass in SYN_SENT or in FIN_SENT: return without closing
RunTimeout ==
    /\ \/ main.pc = "wait_est" /\ snd.state = S_SYN_SENT
       \/ main.pc = "wait_fin" /\ snd.state = S_FIN_SENT
    /\ ProcessExit("returned")
    /\ UNCHANGED <<cfg, file, snd, rcv, out, fwd>>

\* faulty variant: the FIN does not wait for the window to empty
AllSent(s) == s.file_pos >= s.file_size

\* SendData: the condition for the FIN: file fully read and window empty
AllSentAndAcked(s) == s.file_pos >= s.file_size /\ DOMAIN s.window = {}

\* SendData: file fully read and window empty: enter FIN_SENT and send the FIN
SendDataFin ==
    /\ main.pc = "send"
    /\ snd.state = S_ESTABLISHED
    /\ AllSentAndAcked(snd)
    /\ IF ~CanPack(snd.next_seq)
       THEN \* CreateSegment raises in SendSegment: the main thread dies
            /\ snd' = [snd EXCEPT !.state = S_FIN_SENT]
            /\ ProcessExit("crashed")
            /\ fwd' = fwd
       ELSE /\ FwdRoom
            /\ \E d \in ForwardDraws(CreateSegment(snd.next_seq, SEGMENT_FIN, <<>>)) :
                 LET r == SendSegment(snd.stats, fwd, snd.next_seq, SEGMENT_FIN, <<>>,
                                      FALSE, d[1], d[2])
                 IN /\ snd' = [snd EXCEPT !.state = S_FIN_SENT, !.stats = r.stats]
                    /\ fwd' = r.fwd
            /\ main' = [main EXCEPT !.pc = "fin_win", !.seq_num = snd.next_seq]
            /\ UNCHANGED <<recv, tmr, rev>>
    /\ UNCHANGED <<cfg, file, rcv, out>>

\* SendData: put the FIN in the window, advance next_seq, start the timer, break
SendDataFinWindow ==
    /\ main.pc = "fin_win"
    /\ LockFree
    /\ StartTimerSpawns(snd) => tmr.alive < MaxTimers
    /\ LET fin_seq == main.seq_num
           s1 == [snd EXCEPT
                    !.window = Put(@, fin_seq,
                                   [seg_data |-> CreateSegment(fin_seq, SEGMENT_FIN, <<>>),
                                    payload_len |-> 0]),
                    !.next_seq = @ + 1]
       IN snd' = StartTimer(s1, fin_seq)
    /\ tmr' = IF StartTimerSpawns(snd) THEN [tmr EXCEPT !.alive = @ + 1] ELSE tmr
    /\ main' = MainIdle("wait_fin")
    /\ UNCHANGED <<cfg, file, recv, rcv, out, fwd, rev>>

\* SendData: room in the window and bytes left: build the DATA segment, put it
\* in the window and read unacked_bytes for the increment
SendDataCreate ==
    /\ main.pc = "send"
    /\ snd.state = S_ESTABLISHED
    /\ ~AllSentAndAcked(snd)
    /\ LET available_win == snd.max_win - snd.unacked_bytes
       IN /\ available_win > 0 /\ snd.file_pos < snd.file_size
          /\ LET payload_size == MinOf(MSS, MinOf(available_win, snd.file_size - snd.file_pos))
                 payload == SubSeq(file, snd.file_pos + 1, snd.file_pos + payload_size)
                 seq_num == snd.next_seq
             IN IF ~CanPack(seq_num)
                THEN \* CreateSegment raises: the main thread dies
                     /\ ProcessExit("crashed")
                     /\ snd' = snd
                ELSE /\ snd' = [snd EXCEPT
                                  !.window = Put(@, seq_num,
                                      [seg_data |-> CreateSegment(seq_num, SEGMENT_DATA, payload),
                                       payload_len |-> Len(payload)])]
                     /\ main' = [main EXCEPT !.pc = "data_send", !.seq_num = seq_num,
                                             !.payload = payload,
                                             !.loaded = snd.unacked_bytes]
                     /\ UNCHANGED <<recv, tmr, rev>>
    /\ UNCHANGED <<cfg, file, rcv, out, fwd>>

\* SendData: store unacked_bytes, send the segment, advance next_seq and file_pos
SendDataSend ==
    /\ main.pc = "data_send"
    /\ FwdRoom
    /\ \E d \in ForwardDraws(CreateSegment(main.seq_num, SEGMENT_DATA, main.payload)) :
         LET r == SendSegment(snd.stats, fwd, main.seq_num, SEGMENT_DATA, main.payload,
                              FALSE, d[1], d[2])
         IN /\ snd' = [snd EXCEPT !.unacked_bytes = main.loaded + Len(main.payload),
                                  !.stats = r.stats,
                                  !.next_seq = @ + Len(main.payload),
                                  !.file_pos = @ + Len(main.payload)]
            /\ fwd' = r.fwd
    /\ main' = [main EXCEPT !.pc = "data_timer"]
    /\ UNCHANGED <<cfg, file, recv, tmr, rcv, out, rev>>

\* SendData: start the timer if it is not running, else keep the older target
SendDataTimer ==
    /\ main.pc = "data_timer"
    /\ IF ~snd.timer_running
       THEN /\ LockFree
            /\ tmr.alive < MaxTimers
            /\ snd' = StartTimer(snd, main.seq_num)
            /\ tmr' = [tmr EXCEPT !.alive = @ + 1]
       ELSE /\ snd' = IF snd.oldest_unacked_seq = None \/ main.seq_num < snd.oldest_unacked_seq
                      THEN [snd EXCEPT !.oldest_unacked_seq = main.seq_num]
                      ELSE snd
            /\ tmr' = tmr
    /\ main' = MainIdle("send")
    /\ UNCHANGED <<cfg, file, recv, rcv, out, fwd, rev>>

\* SendData has returned and the state is no longer FIN_SENT: close the file
\* and the socket and write the log
RunClose ==
    /\ main.pc = "wait_fin"
    /\ snd.state # S_FIN_SENT
    /\ snd' = [snd EXCEPT !.file_open = FALSE, !.sock_open = FALSE]
    /\ ProcessExit("done")
    /\ UNCHANGED <<cfg, file, rcv, out, fwd>>


(***************************************************************************)
(* Sender receive thread: ReceiveLoop and HandleAck.                       *)
(***************************************************************************)
\* what ReceiveLoop gets from the head datagram for the PLC draw d
Received(d) ==
    LET r == ProcessReverse(snd.plc, Head(rev), d[1], d[2])
    IN [status |-> r.status, parsed |-> ParseSegment(r.seg)]

\* the statistics after a valid segment is logged
ValidStats(stats, status) ==
    IF status = "cor"
    THEN [stats EXCEPT !.plc_reverse_segments_corrupted = @ + 1]
    ELSE stats

RecvReady ==
    /\ SenderRunning
    /\ recv.pc = "loop"
    /\ snd.state # S_CLOSED
    /\ rev # <<>>

\* the loop condition fails: the state is CLOSED
RecvLoopExit ==
    /\ SenderRunning
    /\ recv.pc = "loop"
    /\ snd.state = S_CLOSED
    /\ recv' = RecvIdle("exited")
    /\ rev' = <<>>
    /\ UNCHANGED <<cfg, file, snd, main, tmr, rcv, out, fwd>>

\* the reverse PLC drops the datagram
RecvPlcDrop ==
    /\ RecvReady
    /\ \E d \in ReverseDraws(Head(rev)) :
         /\ Received(d).status = "drp"
         /\ snd' = [snd EXCEPT !.stats.plc_reverse_segments_dropped = @ + 1]
    /\ rev' = Tail(rev)
    /\ UNCHANGED <<cfg, file, main, recv, tmr, rcv, out, fwd>>

\* the checksum fails: count and discard
RecvCorrupted ==
    /\ RecvReady
    /\ \E d \in ReverseDraws(Head(rev)) :
         /\ Received(d).status # "drp"
         /\ ~Received(d).parsed.is_valid
         /\ snd' = [snd EXCEPT !.stats.corrupted_acks_discarded = @ + 1]
    /\ rev' = Tail(rev)
    /\ UNCHANGED <<cfg, file, main, recv, tmr, rcv, out, fwd>>

\* faulty variant: any ACK beyond the ISN completes the handshake
IsSynAckLoose(seq_num, isn) == seq_num > isn

\* ReceiveLoop in SYN_SENT: the ACK that completes the handshake
IsSynAck(seq_num, isn) == seq_num = isn + 1

\* a valid ACK in SYN_SENT
RecvAckSynSent ==
    /\ RecvReady
    /\ snd.state = S_SYN_SENT
    /\ \E d \in ReverseDraws(Head(rev)) :
         LET g == Received(d)
         IN /\ g.status # "drp" /\ g.parsed.is_valid
            /\ g.parsed.segment_type = SEGMENT_ACK
            /\ IF IsSynAck(g.parsed.seq_num, snd.isn)
               THEN /\ snd' = [snd EXCEPT !.state = S_ESTABLISHED,
                                          !.base = snd.isn + 1,
                                          !.next_seq = snd.isn + 1,
                                          !.stats = ValidStats(@, g.status)]
                    /\ recv' = [recv EXCEPT !.pc = "lock", !.op = "stop"]
               ELSE /\ snd' = [snd EXCEPT !.stats = ValidStats(@, g.status)]
                    /\ recv' = recv
    /\ rev' = Tail(rev)
    /\ UNCHANGED <<cfg, file, main, tmr, rcv, out, fwd>>

\* a valid ACK in FIN_SENT
RecvAckFinSent ==
    /\ RecvReady
    /\ snd.state = S_FIN_SENT
    /\ \E d \in ReverseDraws(Head(rev)) :
         LET g == Received(d)
         IN /\ g.status # "drp" /\ g.parsed.is_valid
            /\ g.parsed.segment_type = SEGMENT_ACK
            /\ IF g.parsed.seq_num = snd.next_seq
               THEN /\ snd' = [snd EXCEPT !.state = S_CLOSED,
                                          !.stats = ValidStats(@, g.status)]
                    /\ recv' = [recv EXCEPT !.pc = "lock", !.op = "stop"]
               ELSE /\ snd' = [snd EXCEPT !.stats = ValidStats(@, g.status)]
                    /\ recv' = recv
    /\ rev' = Tail(rev)
    /\ UNCHANGED <<cfg, file, main, tmr, rcv, out, fwd>>

\* sorted() and min() compare the keys: None against an int raises TypeError
KeysComparable(window) ==
    ~(None \in DOMAIN window /\ Cardinality(DOMAIN window) > 1)

\* end_seq of a window entry, as HandleAck computes it
EndSeq(entry) ==
    LET parsed == ParseSegment(entry.seg_data)
    IN IF parsed.segment_type = SEGMENT_DATA
       THEN parsed.seq_num + entry.payload_len
       ELSE parsed.seq_num + 1

\* faulty variant: compares the start of the entry, not its end
AckedSeqsFromStart(window, ack_num) ==
    {seq \in DOMAIN window : seq <= ack_num}

AckedSeqs(window, ack_num) ==
    {seq \in DOMAIN window : EndSeq(window[seq]) <= ack_num}

RECURSIVE AckedBytes(_, _)
AckedBytes(window, seqs) ==
    IF seqs = {} THEN 0
    ELSE LET seq == Min(seqs)
             n == IF ParseSegment(window[seq].seg_data).segment_type = SEGMENT_DATA
                  THEN window[seq].payload_len ELSE 0
         IN n + AckedBytes(window, seqs \ {seq})

\* faulty variant: triggers one duplicate early
FastRetransmitEarly(count) == count = 2

\* HandleAck: the duplicate count that triggers the fast retransmission
FastRetransmitDue(count) == count = 3

\* faulty variant: an ACK below base counts as a duplicate as well
IsDuplicateAckLoose(ack_num, base) == ack_num <= base

\* HandleAck, within ack_num <= base: the ACK repeats base
IsDuplicateAck(ack_num, base) == ack_num = base

\* faulty variant: the fast retransmission is sent as a first transmission
FastResendAsOriginal(stats, q, parsed, plc, corrupt) ==
    SendSegment(stats, q, parsed.seq_num, parsed.segment_type, parsed.payload,
                FALSE, plc, corrupt)

\* HandleAck: the fast retransmission's SendSegment(..., is_retransmission=True)
FastResend(stats, q, parsed, plc, corrupt) ==
    SendSegment(stats, q, parsed.seq_num, parsed.segment_type, parsed.payload,
                TRUE, plc, corrupt)

\* HandleAck, ack_num <= base: a stale ACK, or a duplicate ACK with the
\* fast retransmission on the third one
HandleAckDuplicate(ack_num, status) ==
    IF ~IsDuplicateAck(ack_num, snd.base)
    THEN /\ snd' = [snd EXCEPT !.stats = ValidStats(@, status)]
         /\ fwd' = fwd
    ELSE LET count == (IF ack_num \in DOMAIN snd.dup_ack_count
                       THEN snd.dup_ack_count[ack_num] ELSE 0) + 1
             s1 == [snd EXCEPT !.stats = [ValidStats(@, status) EXCEPT
                                             !.duplicate_acks_received = @ + 1],
                               !.dup_ack_count = Put(@, ack_num, count)]
         IN IF FastRetransmitDue(count) /\ snd.base \in DOMAIN snd.window
            THEN LET entry == snd.window[snd.base]
                     parsed == ParseSegment(entry.seg_data)
                 IN /\ FwdRoom
                    /\ \E f \in ForwardDraws(entry.seg_data) :
                         LET r == FastResend(s1.stats, fwd, parsed, f[1], f[2])
                         IN /\ snd' = [s1 EXCEPT
                                         !.stats = [r.stats EXCEPT !.fast_retransmissions = @ + 1],
                                         !.window = Put(@, snd.base, entry)]
                            /\ fwd' = r.fwd
            ELSE /\ snd' = s1
                 /\ fwd' = fwd

\* a valid ACK in ESTABLISHED: HandleAck up to the end of the scan of the window
RecvAckEstablished ==
    /\ RecvReady
    /\ snd.state = S_ESTABLISHED
    /\ \E d \in ReverseDraws(Head(rev)) :
         LET g == Received(d)
             ack_num == g.parsed.seq_num
         IN /\ g.status # "drp" /\ g.parsed.is_valid
            /\ g.parsed.segment_type = SEGMENT_ACK
            /\ IF ack_num <= snd.base
               THEN /\ HandleAckDuplicate(ack_num, g.status)
                    /\ recv' = recv
               ELSE /\ fwd' = fwd
                    /\ snd' = [snd EXCEPT !.stats = ValidStats(@, g.status)]
                    /\ IF ~KeysComparable(snd.window)
                       THEN \* sorted() of None and int keys raises TypeError
                            recv' = RecvIdle("exited")
                       ELSE IF AckedSeqs(snd.window, ack_num) = {}
                       THEN recv' = recv
                       ELSE recv' = [recv EXCEPT
                                       !.pc = "commit", !.ack_num = ack_num,
                                       !.acked_seqs = AckedSeqs(snd.window, ack_num),
                                       !.loaded = snd.unacked_bytes
                                                  - AckedBytes(snd.window,
                                                               AckedSeqs(snd.window, ack_num))]
    /\ rev' = IF recv'.pc = "exited" THEN <<>> ELSE Tail(rev)
    /\ UNCHANGED <<cfg, file, main, tmr, rcv, out>>

\* faulty variant: base becomes the oldest acknowledged key
NewBaseOldest(ack_num, acked_seqs) == Min(acked_seqs)

\* HandleAck: base after an ACK that acknowledged the entries acked_seqs
NewBase(ack_num, acked_seqs) == ack_num

\* HandleAck: store unacked_bytes, delete the acknowledged entries, advance base
HandleAckCommit ==
    /\ SenderRunning
    /\ recv.pc = "commit"
    /\ LET window == Remove(snd.window, recv.acked_seqs)
           s1 == [snd EXCEPT !.unacked_bytes = recv.loaded,
                             !.window = window,
                             !.base = NewBase(recv.ack_num, recv.acked_seqs),
                             !.dup_ack_count = EmptyMap]
       IN IF DOMAIN window # {}
          THEN IF ~KeysComparable(window)
               THEN \* min() of None and int keys raises TypeError
                    /\ snd' = s1
                    /\ recv' = RecvIdle("exited")
                    /\ rev' = <<>>
               ELSE /\ snd' = [s1 EXCEPT !.oldest_unacked_seq = Min(DOMAIN window)]
                    /\ recv' = IF ~snd.timer_running
                               THEN [RecvIdle("lock") EXCEPT !.op = "start"]
                               ELSE RecvIdle("loop")
                    /\ rev' = rev
          ELSE /\ snd' = [s1 EXCEPT !.oldest_unacked_seq = None]
               /\ recv' = [RecvIdle("lock") EXCEPT !.op = "stop"]
               /\ rev' = rev
    /\ UNCHANGED <<cfg, file, main, tmr, rcv, out, fwd>>

\* the receive thread gets timer_lock for its StartTimer or StopTimer
RecvTimerOp ==
    /\ SenderRunning
    /\ recv.pc = "lock"
    /\ LockFree
    /\ IF recv.op = "stop"
       THEN /\ snd' = StopTimer(snd)
            /\ tmr' = tmr
       ELSE /\ StartTimerSpawns(snd) => tmr.alive < MaxTimers
            /\ snd' = StartTimer(snd, snd.oldest_unacked_seq)
            /\ tmr' = IF StartTimerSpawns(snd) THEN [tmr EXCEPT !.alive = @ + 1] ELSE tmr
    /\ recv' = [recv EXCEPT !.pc = "loop", !.op = "none"]
    /\ UNCHANGED <<cfg, file, main, rcv, out, fwd, rev>>

(***************************************************************************)
(* Sender timer threads: _TimerThread.                                     *)
(***************************************************************************)
\* a thread wakes, takes the lock and finds the timer stopped: it ends
TimerExit ==
    /\ SenderRunning
    /\ tmr.alive > 0 /\ LockFree
    /\ ~snd.timer_running
    /\ tmr' = [tmr EXCEPT !.alive = @ - 1]
    /\ UNCHANGED <<cfg, file, snd, main, recv, rcv, out, fwd, rev>>

\* a thread wakes, takes the lock, retransmits the entry at oldest_unacked_seq
TimerRetransmit ==
    /\ SenderRunning
    /\ tmr.alive > 0 /\ LockFree
    /\ snd.timer_running
    /\ snd.stats.timeout_retransmissions < cfg.timeouts
    /\ snd.oldest_unacked_seq # None /\ snd.oldest_unacked_seq \in DOMAIN snd.window
    /\ FwdRoom
    /\ LET entry == snd.window[snd.oldest_unacked_seq]
           parsed == ParseSegment(entry.seg_data)
       IN /\ \E f \in ForwardDraws(entry.seg_data) :
               LET r == SendSegment(snd.stats, fwd, parsed.seq_num, parsed.segment_type,
                                    parsed.payload, TRUE, f[1], f[2])
               IN /\ snd' = [snd EXCEPT
                               !.stats = [r.stats EXCEPT !.timeout_retransmissions = @ + 1]]
                  /\ fwd' = r.fwd
          /\ tmr' = [tmr EXCEPT !.mid = TRUE, !.seg_data = entry.seg_data,
                                !.payload_len = entry.payload_len]
    /\ UNCHANGED <<cfg, file, main, recv, rcv, out, rev>>

\* the thread writes the entry back under oldest_unacked_seq and releases the lock
TimerWriteBack ==
    /\ SenderRunning
    /\ tmr.mid
    /\ snd' = [snd EXCEPT !.window = Put(@, snd.oldest_unacked_seq,
                                         [seg_data |-> tmr.seg_data,
                                          payload_len |-> tmr.payload_len])]
    /\ tmr' = [tmr EXCEPT !.mid = FALSE, !.seg_data = <<>>, !.payload_len = 0]
    /\ UNCHANGED <<cfg, file, main, recv, rcv, out, fwd, rev>>


(***************************************************************************)
(* Receiver: URPReceiver.run and handle_data_segment.                      *)
(***************************************************************************)
\* send_ack: the sender's socket queue afterwards (needs CanPack(ack_num))
send_ack(q, ack_num) ==
    IF SenderGone THEN q ELSE Append(q, CreateSegment(ack_num, SEGMENT_ACK, <<>>))

is_duplicate(received_bytes, seq_num, payload_len) ==
    \E i \in seq_num..(seq_num + payload_len - 1) : i \in received_bytes

mark_received(received_bytes, seq_num, payload_len) ==
    received_bytes \cup (seq_num..(seq_num + payload_len - 1))

\* write_continuous_data: drain the buffer from expected_seq on
RECURSIVE write_continuous_data(_, _, _)
write_continuous_data(expected_seq, buffer, written) ==
    IF expected_seq \in DOMAIN buffer
    THEN write_continuous_data(expected_seq + Len(buffer[expected_seq]),
                               Remove(buffer, {expected_seq}),
                               written \o buffer[expected_seq])
    ELSE [expected_seq |-> expected_seq, buffer |-> buffer, written |-> written]

RcvParsed == ParseSegment(Head(fwd))

\* run(): open the output file
RcvRunStart ==
    /\ rcv.pc = "start"
    /\ rcv' = [rcv EXCEPT !.pc = "syn", !.file_open = TRUE]
    /\ UNCHANGED <<cfg, file, snd, main, recv, tmr, out, fwd, rev>>

\* the end of run(): close the file and the socket, write the log
RcvClose(r) == [r EXCEPT !.pc = "done", !.file_open = FALSE, !.sock_open = FALSE]

\* a datagram whose checksum fails, in the SYN phase or the main loop
RcvCorrupted ==
    /\ rcv.pc \in {"syn", "main"}
    /\ fwd # <<>>
    /\ ~RcvParsed.is_valid
    /\ rcv' = [rcv EXCEPT !.stats.corrupted_segments_discarded = @ + 1]
    /\ fwd' = Tail(fwd)
    /\ UNCHANGED <<cfg, file, snd, main, recv, tmr, out, rev>>

\* faulty variant: a FIN opens the connection as well
IsConnectionRequestOrFin(seg_type) == seg_type \in {SEGMENT_SYN, SEGMENT_FIN}

\* SYN phase: the segment type that opens the connection
IsConnectionRequest(seg_type) == seg_type = SEGMENT_SYN

\* SYN phase: a valid SYN
RcvSyn ==
    /\ rcv.pc = "syn"
    /\ fwd # <<>>
    /\ RcvParsed.is_valid /\ IsConnectionRequest(RcvParsed.segment_type)
    /\ LET seq_num == RcvParsed.seq_num
           r1 == [rcv EXCEPT !.isn = seq_num, !.expected_seq = seq_num + 1,
                             !.state = STATE_ESTABLISHED]
       IN IF CanPack(seq_num + 1)
          THEN /\ RevRoom
               /\ rcv' = [r1 EXCEPT !.pc = "main"]
               /\ rev' = send_ack(rev, seq_num + 1)
          ELSE \* create_segment raises in send_ack: run() returns at once
               /\ rcv' = [r1 EXCEPT !.pc = "done"]
               /\ rev' = rev
    /\ fwd' = IF rcv'.pc = "done" THEN <<>> ELSE Tail(fwd)
    /\ UNCHANGED <<cfg, file, snd, main, recv, tmr, out>>

\* main loop: a valid SYN with the recorded ISN
RcvSynAgain ==
    /\ rcv.pc = "main"
    /\ fwd # <<>>
    /\ RcvParsed.is_valid /\ RcvParsed.segment_type = SEGMENT_SYN
    /\ RcvParsed.seq_num = rcv.isn
    /\ IF CanPack(rcv.expected_seq)
       THEN /\ RevRoom
            /\ rev' = send_ack(rev, rcv.expected_seq)
            /\ rcv' = rcv
       ELSE /\ rev' = rev
            /\ rcv' = RcvClose(rcv)
    /\ fwd' = IF rcv'.pc = "done" THEN <<>> ELSE Tail(fwd)
    /\ UNCHANGED <<cfg, file, snd, main, recv, tmr, out>>

\* faulty variant: takes any segment at or beyond expected_seq as the next one
InOrderOrLater(seq_num, expected_seq) == seq_num >= expected_seq

\* handle_data_segment: the segment is the next one in order
InOrder(seq_num, expected_seq) == seq_num = expected_seq

\* handle_data_segment: the receiver, the output and the ACK number afterwards
handle_data_segment(r, written, seq_num, payload) ==
    LET payload_len == Len(payload)
    IN IF is_duplicate(r.received_bytes, seq_num, payload_len)
       THEN [rcv |-> [r EXCEPT !.stats.duplicate_segments_received = @ + 1],
             out |-> written, ack |-> r.expected_seq, drain |-> FALSE]
       ELSE LET r1 == [r EXCEPT !.received_bytes =
                                    mark_received(@, seq_num, payload_len)]
            IN IF InOrder(seq_num, r.expected_seq)
               THEN [rcv |-> [r1 EXCEPT !.expected_seq = @ + payload_len],
                     out |-> written \o payload,
                     ack |-> r.expected_seq + payload_len, drain |-> TRUE]
               ELSE [rcv |-> IF seq_num > r.expected_seq
                             THEN [r1 EXCEPT !.buffer = Put(@, seq_num, payload)]
                             ELSE r1,
                     out |-> written, ack |-> r.expected_seq, drain |-> FALSE]

\* main loop: a valid DATA segment in ESTABLISHED
RcvData ==
    /\ rcv.pc = "main"
    /\ fwd # <<>>
    /\ RcvParsed.is_valid /\ RcvParsed.segment_type = SEGMENT_DATA
    /\ rcv.state = STATE_ESTABLISHED
    /\ LET h == handle_data_segment(rcv, out, RcvParsed.seq_num, RcvParsed.payload)
       IN IF CanPack(h.ack)
          THEN /\ RevRoom
               /\ rev' = send_ack(rev, h.ack)
               /\ IF h.drain
                  THEN LET w == write_continuous_data(h.rcv.expected_seq, h.rcv.buffer, h.out)
                       IN /\ rcv' = [h.rcv EXCEPT !.expected_seq = w.expected_seq,
                                                  !.buffer = w.buffer]
                          /\ out' = w.written
                  ELSE /\ rcv' = h.rcv
                       /\ out' = h.out
          ELSE \* create_segment raises in send_ack: the main loop breaks
               /\ rev' = rev
               /\ rcv' = RcvClose(h.rcv)
               /\ out' = h.out
    /\ fwd' = IF rcv'.pc = "done" THEN <<>> ELSE Tail(fwd)
    /\ UNCHANGED <<cfg, file, snd, main, recv, tmr>>

\* main loop: a valid FIN: acknowledge it and enter TIME_WAIT
RcvFin ==
    /\ rcv.pc = "main"
    /\ fwd # <<>>
    /\ RcvParsed.is_valid /\ RcvParsed.segment_type = SEGMENT_FIN
    /\ ~rcv.fin_received
    /\ LET fin_ack_num == RcvParsed.seq_num + 1
       IN IF CanPack(fin_ack_num)
          THEN /\ RevRoom
               /\ rev' = send_ack(rev, fin_ack_num)
               /\ rcv' = [rcv EXCEPT !.fin_ack_num = fin_ack_num, !.fin_received = TRUE,
                                     !.state = STATE_TIME_WAIT, !.pc = "tw"]
          ELSE /\ rev' = rev
               /\ rcv' = RcvClose([rcv EXCEPT !.fin_ack_num = fin_ack_num])
    /\ fwd' = IF rcv'.pc = "done" THEN <<>> ELSE Tail(fwd)
    /\ UNCHANGED <<cfg, file, snd, main, recv, tmr, out>>

\* TIME_WAIT: the FIN again: acknowledge it again and restart the linger period
RcvTimeWaitFin ==
    /\ rcv.pc = "tw"
    /\ fwd # <<>>
    /\ RcvParsed.is_valid /\ RcvParsed.segment_type = SEGMENT_FIN
    /\ RcvParsed.seq_num = rcv.fin_ack_num - 1
    /\ RevRoom
    /\ rev' = send_ack(rev, rcv.fin_ack_num)
    /\ fwd' = Tail(fwd)
    /\ UNCHANGED <<cfg, file, snd, main, recv, tmr, rcv, out>>

\* TIME_WAIT: any other datagram is read and dropped
RcvTimeWaitOther ==
    /\ rcv.pc = "tw"
    /\ fwd # <<>>
    /\ ~(/\ RcvParsed.is_valid /\ RcvParsed.segment_type = SEGMENT_FIN
         /\ RcvParsed.seq_num = rcv.fin_ack_num - 1)
    /\ fwd' = Tail(fwd)
    /\ UNCHANGED <<cfg, file, snd, main, recv, tmr, rcv, out, rev>>

\* TIME_WAIT: two seconds pass without the FIN: CLOSED, close the file and the socket
RcvLingerExpire ==
    /\ rcv.pc = "tw"
    /\ rcv' = RcvClose([rcv EXCEPT !.state = STATE_CLOSED])
    /\ fwd' = <<>>
    /\ UNCHANGED <<cfg, file, snd, main, recv, tmr, out, rev>>

\* a valid segment that neither loop acts on: anything but a SYN in the SYN
\* phase; an ACK, or a SYN with another number, in the main loop
RcvIgnored ==
    /\ fwd # <<>>
    /\ RcvParsed.is_valid
    /\ \/ rcv.pc = "syn" /\ ~IsConnectionRequest(RcvParsed.segment_type)
       \/ /\ rcv.pc = "main"
          /\ \/ RcvParsed.segment_type = SEGMENT_ACK
             \/ RcvParsed.segment_type = SEGMENT_SYN /\ RcvParsed.seq_num # rcv.isn
    /\ fwd' = Tail(fwd)
    /\ UNCHANGED <<cfg, file, snd, main, recv, tmr, rcv, out, rev>>

Next ==
    \/ RunStart \/ RunSyn \/ RunSynWindow \/ RunEstablished \/ RunTimeout
    \/ SendDataFin \/ SendDataFinWindow
    \/ SendDataCreate \/ SendDataSend \/ SendDataTimer \/ RunClose
    \/ RecvLoopExit \/ RecvPlcDrop \/ RecvCorrupted
    \/ RecvAckSynSent \/ RecvAckFinSent \/ RecvAckEstablished
    \/ HandleAckCommit \/ RecvTimerOp
    \/ TimerExit \/ TimerRetransmit \/ TimerWriteBack
    \/ RcvRunStart \/ RcvCorrupted \/ RcvSyn \/ RcvSynAgain \/ RcvData \/ RcvFin
    \/ RcvTimeWaitFin \/ RcvTimeWaitOther \/ RcvLingerExpire

Spec == Init /\ [][Next]_vars

(***************************************************************************)
(* Deeper runs: more timer expiries, for the input sizes and ISNs where    *)
(* they matter.                                                            *)
(*   - a two-segment window whose last byte has sequence number 65535      *)
(*   - a first segment that waits while the SYN is retransmitted           *)
(***************************************************************************)
CleanIsn == MaxSeq - 2 - MaxFile

InitDeep ==
    \/ Start({MaxFile}, {MaxWinSegs},
             [isns |-> {MaxSeq - MaxFile}, timeouts |-> MaxTimeouts + 1,
              faults |-> MaxFaults, strays |-> 0])
    \/ Start({0, MSS}, {1},
             [isns |-> {CleanIsn}, timeouts |-> MaxTimeouts + 3,
              faults |-> 0, strays |-> 0])

SpecDeep == InitDeep /\ [][Next]_vars

(***************************************************************************)
(* The SYN's timer left armed after the handshake (ReceiveLoop's StopTimer *)
(* before Run's StartTimer): the SYN is retransmitted again and again      *)
(* while DATA is outstanding, for the window that ends at sequence number  *)
(* 65535.                                                                  *)
(***************************************************************************)
InitLate ==
    \/ Start({MaxFile}, {MaxWinSegs},
             [isns |-> {MaxSeq - MaxFile}, timeouts |-> MaxTimeouts + 2,
              faults |-> MaxFaults, strays |-> 0])
    \/ Start({MSS}, {1},
             [isns |-> {CleanIsn}, timeouts |-> MaxTimeouts,
              faults |-> MaxFaults, strays |-> 0])

SpecLate == InitLate /\ [][Next]_vars

(***************************************************************************)
(* A second timer expiry for the longest file in a full window, with an    *)
(* ISN that keeps every sequence number within 16 bits.                    *)
(***************************************************************************)
InitRetry ==
    Start({MaxFile}, {MaxWinSegs},
          [isns |-> {CleanIsn}, timeouts |-> MaxTimeouts + 1,
           faults |-> MaxFaults, strays |-> 0])

SpecRetry == InitRetry /\ [][Next]_vars

(***************************************************************************)
(* Open network: the sender's UDP socket takes datagrams from any source   *)
(* (ReceiveLoop does not look at addr), so a valid ACK that the receiver   *)
(* never sent may arrive.                                                  *)
(***************************************************************************)
StrayAckNumbers == {a \in snd.isn..(snd.isn + 2) : CanPack(a)}

StrayAck ==
    /\ cfg.strays > 0
    /\ snd.isn # None
    /\ ~SenderGone
    /\ Len(rev) < MaxQueue
    /\ \E a \in StrayAckNumbers :
         rev' = Append(rev, CreateSegment(a, SEGMENT_ACK, <<>>))
    /\ cfg' = [cfg EXCEPT !.strays = @ - 1]
    /\ UNCHANGED <<file, snd, main, recv, tmr, rcv, out, fwd>>

InitOpen ==
    Start({0, MSS}, {1},
          [isns |-> {CleanIsn, MaxSeq}, timeouts |-> MaxTimeouts, faults |-> MaxFaults,
           strays |-> MaxStrays])

NextOpen == Next \/ StrayAck \/ RcvIgnored

SpecOpen == InitOpen /\ [][NextOpen]_vars

(***************************************************************************)
(* Likewise the receiver's socket: a valid FIN, DATA or ACK segment that   *)
(* the sender never sent may arrive at any time.                           *)
(***************************************************************************)
StraySeqs == {CleanIsn, CleanIsn + 1}
StrayPayload == <<99>>

StraySegments ==
    {CreateSegment(seq, t, IF t = SEGMENT_DATA THEN StrayPayload ELSE <<>>) :
        seq \in StraySeqs, t \in {SEGMENT_FIN, SEGMENT_DATA, SEGMENT_ACK}}

StraySegment ==
    /\ cfg.strays > 0
    /\ ~ReceiverGone
    /\ Len(fwd) < MaxQueue
    /\ \E seg \in StraySegments : fwd' = Append(fwd, seg)
    /\ cfg' = [cfg EXCEPT !.strays = @ - 1]
    /\ UNCHANGED <<file, snd, main, recv, tmr, rcv, out, rev>>

InitStray ==
    Start({0, MSS}, {1},
          [isns |-> {CleanIsn}, timeouts |-> MaxTimeouts, faults |-> MaxFaults,
           strays |-> MaxStrays])

NextStray == Next \/ StraySegment \/ RcvIgnored

SpecStray == InitStray /\ [][NextStray]_vars

(***************************************************************************)
(* The codec on its own: one call of CreateSegment with arguments drawn    *)
(* from the sets below, then one call of CorruptSegment on its result.     *)
(*   cfg     the arguments seq_num, segment_type, payload                  *)
(*   fwd[1]  the encoded segment, fwd[2] the corrupted copy                *)
(***************************************************************************)
CodecSeqs == {0, 1, 255, 256, 32767, 32768, 65280, 65535}
CodecBytes == {0, 1, 255}
SegmentTypes == {SEGMENT_DATA, SEGMENT_ACK, SEGMENT_SYN, SEGMENT_FIN}

RECURSIVE Payloads(_)
Payloads(n) ==
    IF n = 0 THEN {<<>>}
    ELSE Payloads(n - 1)
         \cup {Append(p, b) : p \in {q \in Payloads(n - 1) : Len(q) = n - 1},
                              b \in CodecBytes}

InitCodec ==
    /\ \E s \in CodecSeqs, t \in SegmentTypes, p \in Payloads(MaxPayload) :
         cfg = [seq_num |-> s, segment_type |-> t, payload |-> p]
    /\ file = <<>>
    /\ snd = UrpSenderInit(MSS)
    /\ main = MainIdle("codec")
    /\ recv = RecvIdle("idle")
    /\ tmr = TimersNone
    /\ rcv = URPReceiverInit
    /\ out = <<>>
    /\ fwd = <<>>
    /\ rev = <<>>

CodecCreate ==
    /\ main.pc = "codec"
    /\ fwd = <<>>
    /\ fwd' = <<CreateSegment(cfg.seq_num, cfg.segment_type, cfg.payload)>>
    /\ UNCHANGED <<cfg, file, snd, main, recv, tmr, rcv, out, rev>>

CodecCorrupt ==
    /\ main.pc = "codec"
    /\ Len(fwd) = 1
    /\ \E c \in CorruptDraws(fwd[1]) :
         fwd' = Append(fwd, CorruptSegment(fwd[1], c[1], c[2]))
    /\ UNCHANGED <<cfg, file, snd, main, recv, tmr, rcv, out, rev>>

NextCodec == CodecCreate \/ CodecCorrupt

SpecCodec == InitCodec /\ [][NextCodec]_vars

(***************************************************************************)
(* The PLC alone: a sender whose PLC was constructed with drawn            *)
(* probabilities sends one DATA segment (SendSegment) and passes one       *)
(* inbound ACK through the reverse PLC, for a drawn sample of              *)
(* random.random() and a drawn corruption choice.  cfg holds the draws.    *)
(***************************************************************************)
PlcProbs == {0, 1, 3}
PlcData == CreateSegment(CleanIsn + 1, SEGMENT_DATA, File(MSS))
PlcAck == CreateSegment(CleanIsn + 1 + MSS, SEGMENT_ACK, <<>>)

InitPlc ==
    /\ \E r \in RandSamples, byte_idx \in {4, 5}, bit_idx \in {0, 7} :
         cfg = [rand |-> r, c |-> <<byte_idx, bit_idx>>]
    /\ file = File(MSS)
    /\ \E p_flp \in PlcProbs, p_rlp \in PlcProbs, p_fcp \in PlcProbs, p_rcp \in PlcProbs :
         snd = [UrpSenderInit(MSS) EXCEPT !.plc = Plc(p_flp, p_rlp, p_fcp, p_rcp)]
    /\ main = MainIdle("plc")
    /\ recv = RecvIdle("plc")
    /\ tmr = TimersNone
    /\ rcv = URPReceiverInit
    /\ out = <<>>
    /\ fwd = <<>>
    /\ rev = <<PlcAck>>

\* SendSegment for one DATA segment
PlcSendSegment ==
    /\ main.pc = "plc"
    /\ LET r == SendSegment(snd.stats, fwd, CleanIsn + 1, SEGMENT_DATA, File(MSS), FALSE,
                            cfg.rand, cfg.c)
       IN /\ snd' = [snd EXCEPT !.stats = r.stats]
          /\ fwd' = r.fwd
    /\ main' = MainIdle("sent")
    /\ UNCHANGED <<cfg, file, recv, tmr, rcv, out, rev>>

\* ReceiveLoop: recvfrom and the reverse PLC; rev then holds processed_data
PlcReceive ==
    /\ recv.pc = "plc"
    /\ LET r == ProcessReverse(snd.plc, Head(rev), cfg.rand, cfg.c)
       IN /\ recv' = [RecvIdle("processed") EXCEPT !.status = r.status]
          /\ rev' = IF r.status = "drp" THEN <<>> ELSE <<r.seg>>
    /\ UNCHANGED <<cfg, file, snd, main, tmr, rcv, out, fwd>>

NextPlc == PlcSendSegment \/ PlcReceive

SpecPlc == InitPlc /\ [][NextPlc]_vars

(***************************************************************************)
(* The receiver on its own: recvfrom takes datagrams from any peer, so a    *)
(* peer other than this sender may deliver any valid segment, DATA of any   *)
(* length (none included) among them, and reads the ACKs.                   *)
(*   cfg.strays  the datagrams the peer may still send                      *)
(***************************************************************************)
MaxFeeds == 4
FeedPayloads == {<<>>, File(MSS), File(MSS + 1)}

FeedSegments ==
    {CreateSegment(CleanIsn, t, <<>>) : t \in {SEGMENT_SYN, SEGMENT_ACK}}
    \cup {CreateSegment(seq, SEGMENT_DATA, p) :
             seq \in (CleanIsn + 1)..(CleanIsn + 2), p \in FeedPayloads}
    \cup {CreateSegment(CleanIsn + 3, SEGMENT_FIN, <<>>)}
    \cup {CorruptSegment(CreateSegment(CleanIsn, SEGMENT_SYN, <<>>), 4, 0)}

InitFeed ==
    Start({0}, {1}, [isns |-> {CleanIsn}, timeouts |-> 0, faults |-> 0,
                     strays |-> MaxFeeds])

FeedSegment ==
    /\ cfg.strays > 0
    /\ ~ReceiverGone
    /\ Len(fwd) < MaxQueue
    /\ \E seg \in FeedSegments : fwd' = Append(fwd, seg)
    /\ cfg' = [cfg EXCEPT !.strays = @ - 1]
    /\ UNCHANGED <<file, snd, main, recv, tmr, rcv, out, rev>>

FeedTakeAck ==
    /\ rev # <<>>
    /\ rev' = Tail(rev)
    /\ UNCHANGED <<cfg, file, snd, main, recv, tmr, rcv, out, fwd>>

NextFeed ==
    \/ FeedSegment \/ FeedTakeAck
    \/ RcvRunStart \/ RcvCorrupted \/ RcvSyn \/ RcvSynAgain \/ RcvData \/ RcvFin
    \/ RcvTimeWaitFin \/ RcvTimeWaitOther \/ RcvLingerExpire \/ RcvIgnored

SpecFeed == InitFeed /\ [][NextFeed]_vars

(***************************************************************************)
(* Fair scheduling: every thread that can take a step eventually takes     *)
(* one, the receiver reads its socket, and the timeouts of Run and of      *)
(* TIME_WAIT expire.                                                       *)
(***************************************************************************)
MainStep ==
    \/ RunStart \/ RunSyn \/ RunSynWindow \/ RunEstablished \/ RunTimeout
    \/ SendDataFin \/ SendDataFinWindow
    \/ SendDataCreate \/ SendDataSend \/ SendDataTimer \/ RunClose

RecvStep ==
    \/ RecvLoopExit \/ RecvPlcDrop \/ RecvCorrupted
    \/ RecvAckSynSent \/ RecvAckFinSent \/ RecvAckEstablished
    \/ HandleAckCommit \/ RecvTimerOp

TimerStep == TimerExit \/ TimerRetransmit \/ TimerWriteBack

ReceiverStep ==
    \/ RcvRunStart \/ RcvCorrupted \/ RcvSyn \/ RcvSynAgain \/ RcvData \/ RcvFin
    \/ RcvTimeWaitFin \/ RcvTimeWaitOther \/ RcvLingerExpire

FairSpec ==
    /\ Init /\ [][Next]_vars
    /\ WF_vars(MainStep) /\ WF_vars(RecvStep) /\ WF_vars(TimerStep)
    /\ WF_vars(ReceiverStep)

(***************************************************************************)
(* Properties.                                                             *)
(***************************************************************************)
IsPrefix(a, b) == Len(a) <= Len(b) /\ a = SubSeq(b, 1, Len(a))

\* the sender has gone through FIN_SENT to CLOSED, the receiver through
\* TIME_WAIT to CLOSED
SenderClosed == snd.state = S_CLOSED /\ snd.isn # None
ReceiverClosed == rcv.state = STATE_CLOSED /\ rcv.fin_received
BothClosed == SenderClosed /\ ReceiverClosed

\* run() has ended on an exception: the receiver is not CLOSED
ReceiverRaised == rcv.pc = "done" /\ rcv.state # STATE_CLOSED

\* C1: whenever the sender and the receiver have both reached CLOSED through
\* the FIN exchange, the receiver's output equals the sender's input file.
C1_ByteExactDelivery == BothClosed => out = file

C1_Witness ==
    /\ BothClosed /\ Len(file) = MaxFile /\ out = file
    /\ snd.stats.timeout_retransmissions > 0

\* C2: in every state after the SYN, the output is a prefix of the input file
\* and its length is expected_seq - (isn + 1).
C2_OrderedPrefix ==
    rcv.isn # None =>
        /\ IsPrefix(out, file)
        /\ Len(out) = rcv.expected_seq - (rcv.isn + 1)

C2_Witness ==
    /\ rcv.isn # None /\ Len(out) = MaxFile /\ out = file
    /\ rcv.stats.duplicate_segments_received > 0

\* C3: under fair scheduling and a channel that stops losing and corrupting,
\* the sender and the receiver both reach CLOSED.  Runs that use up the timer
\* expiries this model allows, that end on Run's 30-second timeout, or in which
\* an encoding fails, are left out: the property is violated only by a run
\* that waits forever with retransmissions to spare.
TimeoutsSpent == snd.stats.timeout_retransmissions >= cfg.timeouts
RunGaveUp == main.pc \in {"returned", "crashed"} \/ ReceiverRaised
C3_Termination == <>(BothClosed \/ TimeoutsSpent \/ RunGaveUp)

\* C4: a DATA segment whose bytes the receiver has already taken changes
\* nothing but duplicate_segments_received, writes nothing, and is answered
\* with ACK(expected_seq).
C4_DuplicateIdempotence ==
    [][(RcvData /\ RcvParsed.seq_num \in rcv.received_bytes) =>
          /\ out' = out
          /\ rcv' = [rcv EXCEPT !.stats.duplicate_segments_received = @ + 1]
          /\ rev' = send_ack(rev, rcv.expected_seq)]_vars

\* C5: in every state 0 <= unacked_bytes <= max_win, and the DATA payload in
\* the window (sent or about to be sent, and not acknowledged) is at most max_win.
C5_WindowBound ==
    /\ snd.unacked_bytes >= 0 /\ snd.unacked_bytes <= snd.max_win
    /\ AckedBytes(snd.window, DOMAIN snd.window) <= snd.max_win

DupAckStep == snd'.stats.duplicate_acks_received = snd.stats.duplicate_acks_received + 1
DupCount(s) == IF s.base \in DOMAIN s.dup_ack_count THEN s.dup_ack_count[s.base] ELSE 0
FastRetransmitted == snd'.stats.fast_retransmissions - snd.stats.fast_retransmissions
BaseRestartsCount == snd'.base # snd.base => snd'.dup_ack_count = EmptyMap

\* C7 as stated: the third duplicate ACK for base causes exactly one fast
\* retransmission, every other ACK causes none, and the count restarts when
\* base advances.
C7_FastRetransmitTrigger ==
    [][/\ FastRetransmitted = IF DupAckStep /\ DupCount(snd') = 3 THEN 1 ELSE 0
       /\ BaseRestartsCount]_vars

\* C7, amended: the third duplicate ACK for base causes exactly one fast
\* retransmission, of the window's entry at base, when the window has an entry
\* at base, and none when it has not; every other ACK causes none, and the
\* count restarts when base advances.
C7_FastRetransmitIfSegment ==
    [][/\ FastRetransmitted =
            IF DupAckStep /\ DupCount(snd') = 3 /\ snd.base \in DOMAIN snd.window
            THEN 1 ELSE 0
       /\ FastRetransmitted = 1 =>
            \/ fwd' = Append(fwd, snd.window[snd.base].seg_data)
            \/ Faults(snd'.stats) = Faults(snd.stats) + 1
            \/ ReceiverGone
       /\ BaseRestartsCount]_vars

C7_Witness ==
    /\ snd.state = S_ESTABLISHED
    /\ DupCount(snd) = 4
    /\ snd.base \in DOMAIN snd.window
    /\ snd.stats.fast_retransmissions = 1

\* C8: the sender's state changes only CLOSED -> SYN_SENT -> ESTABLISHED ->
\* FIN_SENT -> CLOSED, it leaves CLOSED once, and it leaves SYN_SENT only on a
\* valid ACK carrying isn + 1.
C8_SenderStateOrder ==
    [][/\ snd'.state # snd.state =>
            <<snd.state, snd'.state>> \in
                {<<S_CLOSED, S_SYN_SENT>>, <<S_SYN_SENT, S_ESTABLISHED>>,
                 <<S_ESTABLISHED, S_FIN_SENT>>, <<S_FIN_SENT, S_CLOSED>>}
       /\ (snd.state = S_CLOSED /\ snd'.state # S_CLOSED) => snd.isn = None
       /\ (snd.state = S_SYN_SENT /\ snd'.state # S_SYN_SENT) =>
            /\ rev # <<>>
            /\ ParseSegment(Head(rev)).is_valid
            /\ ParseSegment(Head(rev)).segment_type = SEGMENT_ACK
            /\ ParseSegment(Head(rev)).seq_num = snd.isn + 1]_vars

\* a stray ACK with another number has been read in SYN_SENT (the receiver has
\* sent nothing yet, no ACK was dropped), and the state is still SYN_SENT
C8_Witness ==
    /\ snd.state = S_SYN_SENT
    /\ cfg.strays < MaxStrays
    /\ rev = <<>> /\ recv.pc = "loop"
    /\ rcv.pc = "syn"
    /\ Faults(snd.stats) = 0

\* C9: the receiver's state changes only CLOSED -> ESTABLISHED -> TIME_WAIT ->
\* CLOSED: to ESTABLISHED on a valid SYN, setting isn and expected_seq and
\* sending ACK(isn + 1); to TIME_WAIT on a valid FIN; to CLOSED when the linger
\* period elapses.
C9_ReceiverStateOrder ==
    [][/\ rcv'.state # rcv.state =>
            <<rcv.state, rcv'.state>> \in
                {<<STATE_CLOSED, STATE_ESTABLISHED>>,
                 <<STATE_ESTABLISHED, STATE_TIME_WAIT>>,
                 <<STATE_TIME_WAIT, STATE_CLOSED>>}
       /\ (rcv.state = STATE_CLOSED /\ rcv'.state # STATE_CLOSED) =>
            /\ rcv.isn = None
            /\ fwd # <<>>
            /\ RcvParsed.is_valid /\ RcvParsed.segment_type = SEGMENT_SYN
            /\ rcv'.isn = RcvParsed.seq_num
            /\ rcv'.expected_seq = rcv'.isn + 1
            /\ rev' = send_ack(rev, rcv'.isn + 1)
       /\ (rcv.state = STATE_ESTABLISHED /\ rcv'.state # STATE_ESTABLISHED) =>
            /\ fwd # <<>>
            /\ RcvParsed.is_valid /\ RcvParsed.segment_type = SEGMENT_FIN
       /\ (rcv.state = STATE_TIME_WAIT /\ rcv'.state # STATE_TIME_WAIT) =>
            RcvLingerExpire]_vars

\* C10: no sequence or ACK number leaves 0..65535, so no encoding fails:
\* neither the sender's main thread nor the receiver's loop ends on struct.error.
C10_SixteenBitSequence == main.pc # "crashed" /\ ~ReceiverRaised

\* DATA segments SendData creates for the whole file: one per MSS bytes, the
\* last one shorter (max_win is a multiple of MSS in this model)
SegmentsOf(n) == (n + MSS - 1) \div MSS

\* Run has returned after the FIN exchange
RunCompleted == main.pc = "done" /\ SenderClosed

\* C11: when the run has completed, original_data_sent is the file size,
\* original_segments_sent is the number of DATA segments created, and
\* total_data_sent >= original_data_sent.
C11_OriginalCounters ==
    RunCompleted =>
        /\ snd.stats.original_data_sent = Len(file)
        /\ snd.stats.original_segments_sent = SegmentsOf(Len(file))
        /\ snd.stats.total_data_sent >= snd.stats.original_data_sent

\* the FIN's sequence number once SendData has returned
FinSeq == snd.next_seq - 1

\* the sender waits for the FIN's ACK with nothing in progress in the receive
\* thread or in a timer thread
FinSentWaiting ==
    /\ snd.state = S_FIN_SENT /\ main.pc = "wait_fin"
    /\ recv.pc = "loop" /\ ~tmr.mid

\* a timer thread is alive and will retransmit the FIN on expiry
FinTimerArmed ==
    /\ FinSeq \in DOMAIN snd.window
    /\ snd.timer_running /\ tmr.alive > 0
    /\ snd.oldest_unacked_seq = FinSeq

\* the sender leaves FIN_SENT only on a valid ACK of the FIN
SenderStaysInFinSent ==
    (snd.state = S_FIN_SENT /\ snd'.state # S_FIN_SENT) =>
        /\ rev # <<>>
        /\ ParseSegment(Head(rev)).segment_type = SEGMENT_ACK
        /\ ParseSegment(Head(rev)).seq_num = snd.next_seq

\* a timer expiry in FIN_SENT retransmits the FIN that was sent
FinRetransmitted ==
    (snd.state = S_FIN_SENT /\ TimerRetransmit) =>
        tmr'.seg_data = CreateSegment(FinSeq, SEGMENT_FIN, <<>>)

\* the receiver in TIME_WAIT that reads the FIN again answers it with
\* ACK(fin_ack), stays in TIME_WAIT with a new linger period, and leaves the
\* output and expected_seq alone
TimeWaitAnswersFin ==
    (/\ rcv.state = STATE_TIME_WAIT /\ rcv.pc = "tw" /\ fwd # <<>> /\ fwd' # fwd
     /\ ~RcvLingerExpire
     /\ RcvParsed.is_valid /\ RcvParsed.segment_type = SEGMENT_FIN
     /\ RcvParsed.seq_num = rcv.fin_ack_num - 1) =>
        /\ rev' = send_ack(rev, RcvParsed.seq_num + 1)
        /\ out' = out
        /\ rcv' = rcv

\* the receiver leaves TIME_WAIT only for CLOSED, when the linger period ends
LingerEndsTimeWait ==
    (rcv.state = STATE_TIME_WAIT /\ rcv'.state # STATE_TIME_WAIT) =>
        rcv'.state = STATE_CLOSED /\ RcvLingerExpire

\* C12: in FIN_SENT the sender stays there until the FIN is acknowledged and
\* has its timer armed to retransmit the same FIN; the receiver in TIME_WAIT
\* answers every valid FIN with the original seq with ACK(fin_ack), restarts
\* its linger period, writes nothing and keeps expected_seq; it goes to CLOSED
\* only when a linger period ends.
C12_TeardownResilience ==
    [][/\ FinSentWaiting => FinTimerArmed
       /\ SenderStaysInFinSent
       /\ FinRetransmitted
       /\ TimeWaitAnswersFin
       /\ LingerEndsTimeWait]_vars

\* C13: the segment encoded from (s, t, p) decodes to (s, t, p, valid), and
\* the one's-complement sum of all its 16-bit words, checksum included, is 0xFFFF.
C13_ChecksumRoundTrip ==
    (main.pc = "codec" /\ fwd # <<>>) =>
        /\ ParseSegment(fwd[1]) =
               [seq_num |-> cfg.seq_num, segment_type |-> cfg.segment_type,
                payload |-> cfg.payload, is_valid |-> TRUE]
        /\ SumWords(fwd[1], 1, 0) = 65535

\* an odd-length payload with a carry in the sum has been encoded
C13_Witness ==
    /\ main.pc = "codec" /\ fwd # <<>>
    /\ cfg.seq_num = 65535 /\ cfg.segment_type = SEGMENT_FIN
    /\ cfg.payload = <<255, 1, 255>>
    /\ ParseSegment(fwd[1]).is_valid

\* bits in which two byte strings of the same length differ
BitsDiffering(a, b) ==
    Cardinality({x \in (1..Len(a)) \X (0..7) : Bit(a[x[1]], x[2]) # Bit(b[x[1]], x[2])})

\* C14: the corrupted copy of an encoded segment differs from it in exactly
\* one bit, the first four bytes (seq and flags) are unchanged, and it decodes
\* as not valid.
C14_SingleBitCorruption ==
    (main.pc = "codec" /\ Len(fwd) = 2) =>
        /\ Len(fwd[2]) = Len(fwd[1])
        /\ BitsDiffering(fwd[1], fwd[2]) = 1
        /\ SubSeq(fwd[2], 1, 4) = SubSeq(fwd[1], 1, 4)
        /\ ParseSegment(fwd[2]).seq_num = cfg.seq_num
        /\ ParseSegment(fwd[2]).segment_type = cfg.segment_type
        /\ ~ParseSegment(fwd[2]).is_valid

\* the last payload byte's top bit was flipped in an odd-length payload
C14_Witness ==
    /\ main.pc = "codec" /\ Len(fwd) = 2
    /\ cfg.payload = <<0, 0, 255>>
    /\ fwd[2][9] = 127
    /\ ~ParseSegment(fwd[2]).is_valid

\* C15: when Run() or run() has returned, the engine's file and socket are closed.
C15_ResourceRelease ==
    /\ main.pc \in {"done", "returned"} => ~snd.file_open /\ ~snd.sock_open
    /\ rcv.pc = "done" => ~rcv.file_open /\ ~rcv.sock_open

\* the sender is between operations: the main thread is in one of its polling
\* loops, the receive thread is at recvfrom, no timer thread holds the lock
BetweenOperations ==
    /\ SenderRunning /\ snd.state # S_CLOSED
    /\ main.pc \in {"wait_est", "send", "wait_fin"}
    /\ recv.pc = "loop" /\ ~tmr.mid

\* C16: between operations, a non-empty window has the timer armed (running,
\* with a live timer thread) on the smallest key of the window, and an empty
\* window has the timer stopped.
C16_SingleTimerOldest ==
    BetweenOperations =>
        IF DOMAIN snd.window # {}
        THEN /\ snd.timer_running /\ tmr.alive > 0
             /\ snd.oldest_unacked_seq = Min(DOMAIN snd.window)
        ELSE ~snd.timer_running

\* the entries of a window whose end-sequence is beyond ack_num
EntriesBeyond(window, ack_num) ==
    {seq \in DOMAIN window : EndSeq(window[seq]) > ack_num}

\* a step in which the receive thread takes a valid ACK above base in
\* ESTABLISHED and finds nothing to acknowledge: HandleAck ends in that step
AckAboveBaseNoEntry ==
    /\ RecvAckEstablished
    /\ ParseSegment(Head(rev)).seq_num > snd.base
    /\ recv'.pc = "loop"

\* C17: when HandleAck has handled a valid ACK a > base in ESTABLISHED, the
\* window holds exactly the former entries with end-sequence > a, unacked_bytes
\* is smaller by the payload of the removed DATA entries, base = a and the
\* duplicate-ACK count is empty.
C17_CumulativeAck ==
    [][/\ HandleAckCommit =>
            /\ snd'.window = Remove(snd.window,
                                    DOMAIN snd.window \ EntriesBeyond(snd.window, recv.ack_num))
            /\ snd'.unacked_bytes =
                 snd.unacked_bytes
                 - AckedBytes(snd.window, DOMAIN snd.window \ DOMAIN snd'.window)
            /\ snd'.base = recv.ack_num
            /\ snd'.dup_ack_count = EmptyMap
       /\ AckAboveBaseNoEntry =>
            /\ snd'.window = snd.window
            /\ EntriesBeyond(snd.window, ParseSegment(Head(rev)).seq_num) = DOMAIN snd.window
            /\ snd'.unacked_bytes = snd.unacked_bytes
            /\ snd'.base = ParseSegment(Head(rev)).seq_num
            /\ snd'.dup_ack_count = EmptyMap]_vars

\* a step in which the receiver in ESTABLISHED takes a valid DATA segment
\* from its socket
DataTaken ==
    /\ rcv.pc = "main" /\ rcv.state = STATE_ESTABLISHED
    /\ fwd # <<>>
    /\ RcvParsed.is_valid /\ RcvParsed.segment_type = SEGMENT_DATA
    /\ Len(fwd') < Len(fwd)

\* exactly one valid ACK has been sent to the sender's socket in the step
\* (a datagram sent after the sender has closed its socket is lost)
OneAckSent ==
    IF SenderGone THEN rev' = rev
    ELSE /\ Len(rev') = Len(rev) + 1
         /\ SubSeq(rev', 1, Len(rev)) = rev
         /\ ParseSegment(rev'[Len(rev')]).is_valid
         /\ ParseSegment(rev'[Len(rev')]).segment_type = SEGMENT_ACK

\* C18: every valid DATA segment taken in ESTABLISHED, in order, duplicate or
\* ahead, is answered with exactly one ACK in the same step, before the next
\* datagram is read.
C18_AckCadence ==
    [][DataTaken => (OneAckSent /\ rcv'.pc = "main")]_vars

\* C19: while the receiver is CLOSED and waiting for the first SYN, reading a
\* valid FIN, DATA or ACK segment changes nothing in the receiver (state, isn,
\* expected_seq, buffer, statistics), writes nothing and sends no ACK.
C19_NothingBeforeHandshake ==
    [][(/\ rcv.pc = "syn" /\ rcv.state = STATE_CLOSED
        /\ fwd # <<>>
        /\ RcvParsed.is_valid
        /\ RcvParsed.segment_type \in {SEGMENT_FIN, SEGMENT_DATA, SEGMENT_ACK}
        /\ Len(fwd') < Len(fwd)) =>
          /\ rcv' = rcv
          /\ out' = out
          /\ rev' = rev]_vars

\* a stray segment has been read before the sender has sent its SYN, and the
\* receiver still waits in CLOSED
C19_Witness ==
    /\ rcv.pc = "syn" /\ rcv.state = STATE_CLOSED /\ rcv.isn = None
    /\ cfg.strays < MaxStrays
    /\ fwd = <<>> /\ rev = <<>> /\ out = <<>>
    /\ snd.isn = None

\* the step that ends ReceiveLoop's handling of the SYN's ACK: its StopTimer
\* (HandleAck's StopTimer comes with base above isn + 1)
HandshakeCompleted ==
    /\ recv.pc = "lock" /\ recv.op = "stop"
    /\ snd.state = S_ESTABLISHED /\ snd.base = snd.isn + 1
    /\ recv'.pc = "loop"

\* C20: when the sender has moved from SYN_SENT to ESTABLISHED on the ACK
\* isn + 1, the window is empty, base = next_seq = isn + 1, unacked_bytes = 0
\* and the timer is stopped.
C20_HandshakePostcondition ==
    [][HandshakeCompleted =>
          /\ DOMAIN snd'.window = {}
          /\ snd'.base = snd'.isn + 1 /\ snd'.next_seq = snd'.isn + 1
          /\ snd'.unacked_bytes = 0
          /\ ~snd'.timer_running]_vars

\* C21: between operations, base <= next_seq and every key k of the window
\* satisfies base <= k < next_seq.
C21_WindowKeyRange ==
    BetweenOperations =>
        /\ snd.base <= snd.next_seq
        /\ \A k \in DOMAIN snd.window : snd.base <= k /\ k < snd.next_seq

\* C22: between operations, unacked_bytes is the sum of the payload lengths of
\* the DATA entries in the window.
C22_WindowAccounting ==
    BetweenOperations =>
        snd.unacked_bytes = AckedBytes(snd.window, DOMAIN snd.window)

\* the sender is ESTABLISHED, the whole file has been read and every DATA byte
\* has been acknowledged
AllDataAcked ==
    /\ snd.state = S_ESTABLISHED /\ main.pc = "send"
    /\ snd.file_pos >= snd.file_size
    /\ snd.base = snd.isn + 1 + snd.file_size

\* SendData has sent the FIN, stored it, called StartTimer and returned (or
\* the FIN's sequence number could not be encoded)
FinSent ==
    /\ snd.state \in {S_FIN_SENT, S_CLOSED}
    /\ main.pc \in {"wait_fin", "done", "returned", "crashed"}

\* C23: under fair scheduling, once the sender is ESTABLISHED with the whole
\* file read and acknowledged, it eventually sends the FIN and leaves ESTABLISHED.
C23_FinEventuallySent == AllDataAcked ~> FinSent

\* the sequence number f of the FIN, before and after SendData's next_seq += 1
FinSeqSent == IF main.pc = "fin_win" THEN main.seq_num ELSE snd.next_seq - 1

\* C24: the sender moves from FIN_SENT to CLOSED only on a valid ACK with the
\* value f + 1, f being the FIN's sequence number, and so only after the
\* receiver has accepted the FIN.
C24_CloseOnFinAck ==
    [][(snd.state = S_FIN_SENT /\ snd'.state = S_CLOSED) =>
          /\ rev # <<>>
          /\ ParseSegment(Head(rev)).segment_type = SEGMENT_ACK
          /\ ParseSegment(Head(rev)).seq_num = FinSeqSent + 1
          /\ rcv.fin_received]_vars

\* C25: the ACK sent for a DATA segment carries expected_seq as it stands at
\* the end of handling that segment, after the reorder buffer has been drained.
C25_AckAfterDrain ==
    [][(RcvData /\ Len(rev') = Len(rev) + 1) =>
          ParseSegment(rev'[Len(rev')]).seq_num = rcv'.expected_seq]_vars

\* C26: every window entry stored under key k is the encoded segment whose seq
\* field is k, no entry is stored under the absent key (None), and no step of
\* the timer activity adds a key to the window (an acknowledged entry is never
\* re-inserted).
C26_TimerAckSerialized ==
    [][/\ \A k \in DOMAIN snd'.window :
            /\ k # None
            /\ ParseSegment(snd'.window[k].seg_data).seq_num = k
       /\ TimerStep => DOMAIN snd'.window \subseteq DOMAIN snd.window]_vars

\* C27: at most one timer activity is alive and able to retransmit: while the
\* timer is running there is at most one _TimerThread.
C27_SingleTimerActivity ==
    (SenderRunning /\ snd.timer_running) => tmr.alive <= 1

\* C28: next_seq, file_pos and unacked_bytes are changed only by the send loop:
\* every step of the receive loop (ACK handling) and of the timer activity
\* leaves all three unchanged.
C28_SingleWriter ==
    [][(RecvStep \/ TimerStep) =>
          /\ snd'.next_seq = snd.next_seq
          /\ snd'.file_pos = snd.file_pos
          /\ snd'.unacked_bytes = snd.unacked_bytes]_vars

\* the unacknowledged window keys: those at or above base
UnackedKeys == {k \in DOMAIN snd.window : k >= snd.base}

\* what a timer expiry leaves alone
TimeoutFrame ==
    /\ snd'.state = snd.state /\ snd'.base = snd.base
    /\ snd'.next_seq = snd.next_seq /\ snd'.file_pos = snd.file_pos
    /\ snd'.unacked_bytes = snd.unacked_bytes
    /\ snd'.dup_ack_count = snd.dup_ack_count
    /\ DOMAIN snd'.window = DOMAIN snd.window
    /\ snd'.timer_running

\* the timer retransmits the oldest unacknowledged entry, unchanged
TimeoutResendsOldest ==
    TimerRetransmit =>
        /\ UnackedKeys # {} /\ snd.oldest_unacked_seq = Min(UnackedKeys)
        /\ ParseSegment(snd.window[snd.oldest_unacked_seq].seg_data).seq_num
              = snd.oldest_unacked_seq
        /\ Len(fwd') <= Len(fwd) + 1
        /\ Len(fwd') = Len(fwd) + 1 =>
              LET seg_data == snd.window[snd.oldest_unacked_seq].seg_data
              IN \/ fwd'[Len(fwd')] = seg_data
                 \/ \E c \in CorruptDraws(seg_data) :
                       fwd'[Len(fwd')] = CorruptSegment(seg_data, c[1], c[2])
        /\ snd'.stats.timeout_retransmissions = snd.stats.timeout_retransmissions + 1

\* C29: a timer expiry sends exactly the oldest unacknowledged segment through
\* the forward PLC, adds 1 to timeout_retransmissions, and leaves state, base,
\* next_seq, file_pos, unacked_bytes, the duplicate-ACK count and the set of
\* window keys unchanged, with the timer still armed.
C29_TimeoutRetransmitFrame ==
    [][/\ TimeoutResendsOldest
       /\ (TimerRetransmit \/ TimerWriteBack) => TimeoutFrame]_vars

\* C30: a fast retransmission resends the window entry at base as it is
\* stored (seq, type and payload), as a retransmission (the original_* counters
\* stay), and leaves the timer's armed flag and target, base, next_seq,
\* unacked_bytes and the set of window keys unchanged.
C30_FastRetransmitFrame ==
    [][FastRetransmitted = 1 =>
          /\ snd.base \in DOMAIN snd.window
          /\ LET seg_data == snd.window[snd.base].seg_data
             IN \/ fwd' = fwd
                \/ fwd' = Append(fwd, seg_data)
                \/ \E c \in CorruptDraws(seg_data) :
                      fwd' = Append(fwd, CorruptSegment(seg_data, c[1], c[2]))
          /\ snd'.stats.original_data_sent = snd.stats.original_data_sent
          /\ snd'.stats.original_segments_sent = snd.stats.original_segments_sent
          /\ snd'.timer_running = snd.timer_running
          /\ snd'.oldest_unacked_seq = snd.oldest_unacked_seq
          /\ snd'.base = snd.base /\ snd'.next_seq = snd.next_seq
          /\ snd'.unacked_bytes = snd.unacked_bytes
          /\ DOMAIN snd'.window = DOMAIN snd.window]_vars

\* a DATA segment has been fast-retransmitted and has reached the socket
C30_Witness ==
    /\ snd.stats.fast_retransmissions = 1
    /\ snd.base \in DOMAIN snd.window
    /\ snd.window[snd.base].payload_len > 0
    /\ snd.stats.total_data_sent
         > snd.stats.original_data_sent + snd.stats.timeout_retransmissions

\* a valid ACK below base is handled by HandleAck in ESTABLISHED
StaleAckPending ==
    /\ RecvReady /\ snd.state = S_ESTABLISHED
    /\ ParseSegment(Head(rev)).is_valid
    /\ ParseSegment(Head(rev)).segment_type = SEGMENT_ACK
    /\ ParseSegment(Head(rev)).seq_num < snd.base

\* C31: handling a valid ACK a < base in ESTABLISHED changes nothing in the
\* sender's record (window, base, next_seq, unacked_bytes, duplicate-ACK count,
\* timer, every counter) and transmits nothing.
C31_StaleAckNoOp ==
    [][(StaleAckPending /\ RecvAckEstablished) =>
          /\ snd' = snd /\ tmr' = tmr /\ recv' = recv
          /\ fwd' = fwd /\ rev' = Tail(rev)]_vars

\* a stale ACK is at the head of the sender's socket queue with a segment
\* outstanding, and the receive loop is about to handle it
C31_Witness ==
    /\ StaleAckPending
    /\ snd.base \in DOMAIN snd.window
    /\ snd.timer_running

\* SendData builds a new DATA segment / sends it and advances next_seq, file_pos
DataCreated == main.pc = "send" /\ main'.pc = "data_send"
DataSent == main.pc = "data_send" /\ main'.pc = "data_timer"

\* the segment is built only with room in the window and bytes left, from the
\* file bytes at file_pos, with the length min(MSS, room, remaining)
DataCreatedByRule ==
    DataCreated =>
        LET len == Len(main'.payload)
        IN /\ snd.state = S_ESTABLISHED
           /\ snd.unacked_bytes < snd.max_win /\ snd.file_pos < snd.file_size
           /\ len >= 1 /\ len <= MSS
           /\ len <= snd.max_win - snd.unacked_bytes
           /\ len <= snd.file_size - snd.file_pos
           /\ len \in {MSS, snd.max_win - snd.unacked_bytes,
                        snd.file_size - snd.file_pos}
           /\ main'.seq_num = snd.next_seq
           /\ main'.payload = [i \in 1..len |-> file[snd.file_pos + i]]

\* afterwards next_seq and file_pos are advanced by the length and the window
\* holds the segment under its seq
DataSentAdvances ==
    DataSent =>
        LET len == Len(main.payload)
        IN /\ main.seq_num = snd.next_seq
           /\ snd'.next_seq = snd.next_seq + len
           /\ snd'.file_pos = snd.file_pos + len
           /\ main.seq_num \in DOMAIN snd'.window
           /\ snd'.window[main.seq_num] =
                 [seg_data |-> CreateSegment(main.seq_num, SEGMENT_DATA, main.payload),
                  payload_len |-> len]

\* C32: a DATA segment is created only in ESTABLISHED with unacked_bytes <
\* max_win and file_pos < file_size, with min(MSS, max_win - unacked_bytes,
\* file_size - file_pos) bytes taken from the file at file_pos and seq =
\* next_seq; afterwards next_seq and file_pos have advanced by that length and
\* the segment is in the window under its seq.
C32_SendingDiscipline == [][DataCreatedByRule /\ DataSentAdvances]_vars

\* the receiver reads a datagram whose checksum fails; the sender's receive loop
\* finds the checksum of a datagram wrong after the reverse PLC
RcvBadChecksum ==
    /\ fwd # <<>> /\ ~RcvParsed.is_valid
    /\ rcv.pc \in {"syn", "main", "tw"}
    /\ fwd' = Tail(fwd) /\ ~RcvLingerExpire
SndBadChecksum == RecvCorrupted

\* C33: a segment whose checksum fails changes no protocol state at the
\* receiver or the sender and elicits no transmission; its only effect is
\* corrupted_segments_discarded + 1 / corrupted_acks_discarded + 1.
C33_BadChecksumDiscard ==
    [][/\ RcvBadChecksum =>
            /\ rcv' = [rcv EXCEPT !.stats.corrupted_segments_discarded = @ + 1]
            /\ out' = out /\ rev' = rev
       /\ SndBadChecksum =>
            /\ snd' = [snd EXCEPT !.stats.corrupted_acks_discarded = @ + 1]
            /\ recv' = recv /\ tmr' = tmr /\ main' = main
            /\ fwd' = fwd]_vars

\* the outcome the PLC must give for sample rand
PlcOutcome(rand, loss_prob, corrupt_prob) ==
    IF rand < loss_prob THEN "drp"
    ELSE IF loss_prob <= rand /\ rand < loss_prob + corrupt_prob THEN "cor"
    ELSE "ok"

\* what passes the PLC with that outcome; <<>> is no datagram
PlcPassed(outcome, segment_data, c) ==
    IF outcome = "drp" THEN <<>>
    ELSE IF outcome = "cor" THEN <<CorruptSegment(segment_data, c[1], c[2])>>
    ELSE <<segment_data>>

\* C34: the PLC drops iff r < loss_prob, corrupts iff loss_prob <= r <
\* loss_prob + corrupt_prob and passes the segment unchanged otherwise; the
\* forward path decides with (flp, fcp), the reverse path with (rlp, rcp), and
\* a forward drop puts no datagram on the wire.
C34_PlcClassification ==
    /\ main.pc = "sent" =>
          LET outcome == PlcOutcome(cfg.rand, snd.plc.flp, snd.plc.fcp)
          IN /\ fwd = PlcPassed(outcome, PlcData, cfg.c)
             /\ (outcome = "drp") = (snd.stats.plc_forward_segments_dropped = 1)
             /\ (outcome = "cor") = (snd.stats.plc_forward_segments_corrupted = 1)
    /\ recv.pc = "processed" =>
          LET outcome == PlcOutcome(cfg.rand, snd.plc.rlp, snd.plc.rcp)
          IN /\ recv.status = outcome
             /\ rev = PlcPassed(outcome, PlcAck, cfg.c)

\* one sample that the forward path drops and the reverse path corrupts
C34_Witness ==
    /\ main.pc = "sent" /\ recv.pc = "processed"
    /\ fwd = <<>> /\ recv.status = "cor"
    /\ snd.plc.flp + snd.plc.fcp > 4

\* the increase of one of the sender's counters in a step
Raised(counter) == snd'.stats[counter] - snd.stats[counter]

\* a datagram is put on the wire to the receiver
Transmitted == Len(fwd') = Len(fwd) + 1

\* C35: each of the four PLC counters counts the PLC calls of its direction
\* with its outcome: a forward drop, a forward corruption, a reverse drop and
\* a reverse corruption each raise their own counter by 1, and nothing else
\* raises it.
C35_PlcCounters ==
    [][/\ Raised("plc_reverse_segments_dropped") = (IF RecvPlcDrop THEN 1 ELSE 0)
       /\ Raised("plc_reverse_segments_corrupted") = (IF RecvCorrupted THEN 1 ELSE 0)
       /\ Raised("plc_forward_segments_dropped") \in {0, 1}
       /\ Raised("plc_forward_segments_dropped") = 1 => fwd' = fwd
       /\ Raised("plc_forward_segments_corrupted") \in {0, 1}
       /\ Transmitted =>
            Raised("plc_forward_segments_corrupted")
              = (IF ParseSegment(fwd'[Len(fwd')]).is_valid THEN 0 ELSE 1)]_vars

(***************************************************************************)
(* The event logs.  log_entries is only ever appended to and never read by *)
(* the protocol, so it is modelled as the output of a step: the statuses   *)
(* of the entries that the step's Log / log calls append.                  *)
(***************************************************************************)
\* SendSegment ran in this step, and the status it logged
PassedForward ==
    Raised("total_segments_sent") + Raised("plc_forward_segments_dropped") = 1
ForwardStatus ==
    IF Raised("plc_forward_segments_dropped") = 1 THEN "drp"
    ELSE IF Raised("plc_forward_segments_corrupted") = 1 THEN "cor"
    ELSE "ok"

\* the entries the sender's Log calls append in this step: ReceiveLoop logs
\* after the checksum test, SendSegment after the PLC
SenderLogged ==
    (IF RecvCorrupted THEN <<"cor">>
     ELSE IF RecvAckSynSent \/ RecvAckFinSent \/ RecvAckEstablished THEN <<"ok">>
     ELSE <<>>)
    \o (IF PassedForward THEN <<ForwardStatus>> ELSE <<>>)

\* the entries the receiver's log calls append in this step (start_time is
\* set when the SYN is accepted)
ReceiverLogged ==
    IF RcvCorrupted /\ rcv.pc = "main" THEN <<"cor">>
    ELSE IF RcvSyn \/ RcvData \/ RcvFin THEN <<"ok">>
    ELSE <<>>

\* the sender / the receiver reads a datagram from its socket in this step
SenderRead ==
    RecvPlcDrop \/ RecvCorrupted \/ RecvAckSynSent \/ RecvAckFinSent \/ RecvAckEstablished
ReceiverRead ==
    \/ RcvCorrupted \/ RcvSyn \/ RcvSynAgain \/ RcvData \/ RcvFin
    \/ RcvTimeWaitFin \/ RcvTimeWaitOther \/ RcvIgnored

\* C36: once the event clock runs, every segment passed to the forward PLC and
\* every datagram read from a socket appends exactly one log entry, with the
\* status drp if the PLC dropped it, cor if it was corrupted or failed the
\* checksum, ok otherwise.
C36_OneLogLinePerEvent ==
    [][/\ SenderLogged =
            (IF SenderRead
             THEN <<IF RecvPlcDrop THEN "drp" ELSE IF RecvCorrupted THEN "cor" ELSE "ok">>
             ELSE <<>>)
            \o (IF PassedForward THEN <<ForwardStatus>> ELSE <<>>)
       /\ ReceiverLogged =
            IF ReceiverRead /\ (rcv.pc # "syn" \/ RcvSyn)
            THEN <<IF RcvParsed.is_valid THEN "ok" ELSE "cor">>
            ELSE <<>>]_vars

\* the receiver, in ESTABLISHED, reads a valid SYN
SynInEstablished ==
    /\ ReceiverRead
    /\ rcv.pc = "main" /\ rcv.state = STATE_ESTABLISHED
    /\ RcvParsed.is_valid /\ RcvParsed.segment_type = SEGMENT_SYN

\* C37: in ESTABLISHED a valid SYN with the recorded isn is answered with
\* ACK(expected_seq) and changes nothing else (state, isn, expected_seq,
\* buffer, delivered set, output); a valid SYN with another seq is ignored
\* without an ACK.
C37_RetransmittedSyn ==
    [][SynInEstablished =>
          /\ rcv' = rcv /\ out' = out
          /\ rev' = IF RcvParsed.seq_num = rcv.isn
                    THEN send_ack(rev, rcv.expected_seq)
                    ELSE rev]_vars

\* C38: whenever the receiver accepts a FIN in ESTABLISHED, the FIN's seq is
\* expected_seq, the reorder buffer is empty and the output holds the whole
\* input file.
C38_FinAfterAllData ==
    [][RcvFin =>
          /\ RcvParsed.seq_num = rcv.expected_seq
          /\ rcv.buffer = EmptyMap
          /\ out = file]_vars

\* the FIN has been accepted after a transfer of the longest file in which
\* the PLC dropped a segment
C38_Witness ==
    /\ rcv.fin_received /\ rcv.state = STATE_TIME_WAIT
    /\ Len(file) = MaxFile /\ out = file
    /\ snd.stats.plc_forward_segments_dropped = 1

\* the sequence numbers of the bytes of the segment buffered at key k
BufferedRange(k) == k..(k + Len(rcv.buffer[k]) - 1)

WindowType(seq) == ParseSegment(snd.window[seq].seg_data).segment_type

\* SendSegment is called for a DATA segment in this step: by the send loop,
\* by the timer for the entry under oldest_unacked_seq, or by HandleAck's
\* fast retransmission of the entry under base
DataToPlc ==
    \/ SendDataSend
    \/ TimerRetransmit /\ WindowType(snd.oldest_unacked_seq) = SEGMENT_DATA
    \/ /\ Raised("fast_retransmissions") = 1
       /\ WindowType(snd.base) = SEGMENT_DATA

\* the FIN is first sent only when every byte of the file is acknowledged
FinAfterAllAcked ==
    SendDataFin => snd.base = snd.isn + 1 + Len(file)

\* C40: the sender transmits its first FIN only after every DATA byte of the
\* file has been cumulatively acknowledged, and once the FIN has been sent no
\* DATA segment is passed to the forward PLC again, neither by the timer nor
\* by a fast retransmission.
C40_NoDataAfterFin ==
    [][/\ FinAfterAllAcked
       /\ snd.state = S_FIN_SENT => ~DataToPlc]_vars

====
